---- MODULE Spec2Model ----
(***************************************************************************)
(* Verification model of the scene-lifecycle manager, the typed object     *)
(* factory and the FoundationScene object registry of the tutorial.        *)
(*                                                                         *)
(*   Spec           InteractiveSceneManager (AbstractSceneManager plus the *)
(*                  two mixins): initialize/start/stop/dispose, the frame  *)
(*                  loop, addObject/click/removeSelectedObject/clear.      *)
(*   LoopSpec       the same manager's lifecycle and frame loop with the   *)
(*                  clock, the performance callback and pointer events.    *)
(*   FactorySpec    TypedObjectFactory.createMesh / createMeshes.          *)
(*   FoundationSpec FoundationScene addObject/removeObject/dispose.        *)
(*   ConstructSpec  TypedGeometryFactory.createGeometry / createMaterial.  *)
(*   MeshSpec       createMesh with a transform or userData.               *)
(*   BuilderSpec    SceneManagerBuilder: the with* methods and build().    *)
(***************************************************************************)
EXTENDS Integers, Sequences, FiniteSets

\* ------------------------------------------------------------------ bounds
MaxInit == 2
MaxRequests == 3
MaxDispose == 2
MaxAdds == 2
NumMeshes == 2
MaxHandles == 4
MaxBatch == 2
NumObjects == 2
NumExplicitIds == 2
MaxTime == 1500
TickMs == 500
MaxReleases == 3

\* InteractiveSceneManager: the meshes a caller can hand to addObject()
Meshes == 1..NumMeshes

\* a mesh the caller attached to mesh 1 with mesh.add(child) before handing
\* mesh 1 to addObject(): a descendant of the scene, never pushed to objects
ChildMesh == NumMeshes + 1

Descendants(m) == IF m = 1 THEN {ChildMesh} ELSE {}

\* every THREE.Mesh of the model
AllMeshes == Meshes \cup {ChildMesh}

\* FoundationScene: the objects a caller can hand to addObject(), the ids a
\* caller can pass, and the ids in use (explicit ids, then one uuid per object)
Objects3D == 1..NumObjects
ExplicitIds == 1..NumExplicitIds
Ids == 1..(NumExplicitIds + NumObjects)

\* null (animationId, selectedObject) is written 0; request ids and mesh ids
\* are positive.
Null == 0

VARIABLES
  sceneCalls,        \* number of initializeScene() hook calls
  lightingCalls,     \* number of setupLighting() hook calls
  resizeListeners,   \* 'resize' listeners registered on window
  clickListeners,    \* 'click' listeners registered by setupInteraction()
  sceneMeshes,       \* meshes that are children of this.scene
  objects,           \* InteractiveSceneManager.objects
  selectedObject,    \* InteractiveSceneManager.selectedObject
  geometryDisposals, \* per mesh: calls of geometry.dispose()
  materialDisposals, \* per mesh: calls of material.dispose()
  animationId,       \* AbstractSceneManager.animationId
  pending,           \* requestAnimationFrame callbacks not yet run/cancelled
  nextRequest,       \* id the next requestAnimationFrame() returns
  frameLog,          \* hooks executed by the most recent animate() call
  lastOp,            \* the operation executed last
  err,               \* the error the last operation raised
  disposeCalls,      \* number of dispose() calls so far
  addCalls,          \* number of addObject() calls so far
  initializeCalls,   \* number of initialize() calls so far
  stopped,           \* stop() was called while Running, no start() since
  disposed,          \* a dispose() call has run to completion
  now,               \* performance.now(), milliseconds since construction
  lastTime,          \* PerformanceMonitorMixin.lastTime
  frameCount,        \* PerformanceMonitorMixin.frameCount
  performanceCallback, \* what the registered performance callback does
  reportedFps,       \* stats.fps of the most recent callback invocation
  frameTimes,        \* performance.now() of every animate() call so far
  initLog,           \* hooks run by the most recent initialize(), in order
  heap,              \* factory: the geometry/material handles allocated
  meshes,            \* factory: the meshes returned to callers
  lastAllocated,     \* factory: handles allocated by the most recent call
  lastMade,          \* factory: meshes the most recent call constructed
  managedObjects,    \* FoundationScene.managedObjects (id -> object)
  sceneChildren,     \* FoundationScene: children of this.scene
  isDisposed,        \* FoundationScene.isDisposed
  fsAnimationId,     \* FoundationScene.animationId
  fsPending,         \* FoundationScene: animation frames requested, not run
  fsNextRequest,     \* FoundationScene: id of the next frame request
  resizeHandler,     \* FoundationScene: resizeHandler is registered
  lastId,            \* FoundationScene: id used by the most recent call
  lastResult,        \* FoundationScene: value the most recent call returned
  sizeBeforeAdd,     \* FoundationScene: managedObjects.size before the last add
  fsDisposals,       \* FoundationScene: per object, dispose() calls on its
                     \* geometry and material
  cgType,            \* part factory: the tag of the most recent call
  cgConfig,          \* part factory: the config of the most recent call
  cgClass,           \* part factory: the class it constructed, "none" if none
  cgArgs,            \* part factory: the arguments the constructor received
  cmTransform,       \* createMesh: config.transform of the most recent call
  cmMesh,            \* createMesh: position/rotation/scale of the mesh made
  cmGiven,           \* createMesh: config.userData as it was when passed
  cmUserData,        \* createMesh: config.userData as the caller holds it now
  cmMeshFlat,        \* createMesh: mesh.userData.flat, the mesh's own field
  sbConfig,          \* SceneManagerBuilder: this.config
  sbManager,         \* SceneManagerBuilder: the manager build() returned
  sbGiven            \* SceneManagerBuilder: this.config when build() ran

managerVars == <<sceneCalls, lightingCalls, resizeListeners, clickListeners,
                 sceneMeshes, objects, selectedObject, geometryDisposals,
                 materialDisposals, animationId, pending, nextRequest,
                 frameLog, disposeCalls, addCalls, initializeCalls, stopped,
                 disposed, now, lastTime, frameCount, performanceCallback,
                 reportedFps, frameTimes, initLog>>

\* the state of PerformanceMonitorMixin and the clock it reads
statsVars == <<now, lastTime, frameCount, performanceCallback, reportedFps,
               frameTimes>>

factoryVars == <<heap, meshes, lastAllocated, lastMade>>

foundationVars == <<managedObjects, sceneChildren, isDisposed, fsAnimationId,
                    fsPending, fsNextRequest, resizeHandler, lastId,
                    lastResult, sizeBeforeAdd, fsDisposals>>

\* the state of the stand-alone helpers, helperVars, is made of:
\* TypedGeometryFactory.createGeometry / createMaterial called on their own
constructVars == <<cgType, cgConfig, cgClass, cgArgs>>

\* TypedObjectFactory.createMesh called with a transform or with userData
meshVars == <<cmTransform, cmMesh, cmGiven, cmUserData, cmMeshFlat>>

\* SceneManagerBuilder and the manager it builds
builderVars == <<sbConfig, sbManager, sbGiven>>

helperVars == <<constructVars, meshVars, builderVars>>

vars == <<managerVars, factoryVars, foundationVars, helperVars, lastOp, err>>

\* ------------------------------------------------------------------ helpers
\* number of occurrences of m in the array s
Count(s, m) == Cardinality({i \in DOMAIN s : s[i] = m})

\* Array.prototype.indexOf: first index of m, 0 when absent
IndexOf(s, m) ==
  IF \E i \in DOMAIN s : s[i] = m
    THEN CHOOSE i \in DOMAIN s : s[i] = m /\ \A j \in 1..(i-1) : s[j] # m
    ELSE 0

\* Array.prototype.splice(index, 1)
Splice(s, i) == [k \in 1..(Len(s)-1) |-> IF k < i THEN s[k] ELSE s[k+1]]

\* the elements of the array s
Elements(s) == {s[i] : i \in DOMAIN s}

\* the scene has been built (this.scene / this.renderer are defined)
SceneDefined == sceneCalls > 0

\* the frame loop of an initialized manager is running
Running == SceneDefined /\ animationId # Null

\* DEFAULT_CONFIG.autoResize of FoundationScene
AutoResize == TRUE

\* ------------------------------------------------------------------ Init
Init ==
  /\ sceneCalls = 0
  /\ lightingCalls = 0
  /\ resizeListeners = 0
  /\ clickListeners = 0
  /\ sceneMeshes = {}
  /\ objects = <<>>
  /\ selectedObject = Null
  /\ geometryDisposals = [m \in AllMeshes |-> 0]
  /\ materialDisposals = [m \in AllMeshes |-> 0]
  /\ animationId = Null
  /\ pending = {}
  /\ nextRequest = 1
  /\ frameLog = <<>>
  /\ lastOp = "new"
  /\ err = "none"
  /\ disposeCalls = 0
  /\ addCalls = 0
  /\ initializeCalls = 0
  /\ stopped = FALSE
  /\ disposed = FALSE
  /\ now = 0
  /\ lastTime = 0
  /\ frameCount = 0
  /\ performanceCallback = "none"
  /\ reportedFps = 0
  /\ frameTimes = <<>>
  /\ initLog = <<>>
  /\ heap = <<>>
  /\ meshes = <<>>
  /\ lastAllocated = {}
  /\ lastMade = <<>>
  /\ managedObjects = [i \in Ids |-> Null]
  /\ sceneChildren = {}
  /\ isDisposed = FALSE
  /\ fsAnimationId = Null
  /\ fsPending = {}
  /\ fsNextRequest = 1
  /\ resizeHandler = AutoResize
  /\ lastId = Null
  /\ lastResult = "none"
  /\ sizeBeforeAdd = 0
  /\ fsDisposals = [o \in Objects3D |-> 0]
  /\ cgType = "none"
  /\ cgConfig = [size |-> <<>>, segments |-> <<>>]
  /\ cgClass = "none"
  /\ cgArgs = [size |-> <<>>, segments |-> <<>>]
  /\ cmTransform = <<>>
  /\ cmMesh = [position |-> [x |-> 0, y |-> 0, z |-> 0],
               rotation |-> [x |-> 0, y |-> 0, z |-> 0],
               scale |-> [x |-> 1, y |-> 1, z |-> 1]]
  /\ cmGiven = <<>>
  /\ cmUserData = <<>>
  /\ cmMeshFlat = <<>>
  /\ sbConfig = [enableShadows |-> TRUE,
                 enableInteraction |-> TRUE,
                 enablePerformanceMonitoring |-> FALSE,
                 backgroundColor |-> "0x0a0a1a",
                 cameraPosition |-> <<5, 5, 5>>]
  /\ sbManager = <<>>
  /\ sbGiven = <<>>

\* =================================================== InteractiveSceneManager
\* variant of TemplateHooks: the lighting hook runs before the scene is built
TemplateHooksLightingFirst ==
  <<"setupLighting", "initializeScene", "setupEventListeners">>

\* AbstractSceneManager.initialize(): the three hooks, in call order
TemplateHooks == <<"initializeScene", "setupLighting", "setupEventListeners">>

\* the capability-specific steps InteractiveSceneManager.initialize() runs
\* after super.initialize()
CapabilityHooks ==
  <<"setupInteraction", "setEventHandler:onClick", "setEventHandler:onHover">>

\* variant of Initialize: the override omits super.initialize() and runs
\* only the capability-specific steps
InitializeWithoutSuper ==
  /\ initializeCalls < MaxInit
  /\ initializeCalls' = initializeCalls + 1
  /\ initLog' = CapabilityHooks
  /\ clickListeners' = clickListeners + 1
  /\ lastOp' = "initialize"
  /\ err' = "none"
  /\ UNCHANGED <<sceneCalls, lightingCalls, resizeListeners, sceneMeshes,
                 objects, selectedObject, geometryDisposals,
                 materialDisposals, animationId, pending, nextRequest,
                 frameLog, disposeCalls, addCalls, stopped>>
  /\ UNCHANGED <<disposed, statsVars, factoryVars, foundationVars, helperVars>>

\* InteractiveSceneManager.initialize(): super.initialize() runs the three
\* hooks, then setupInteraction() and the two setEventHandler() calls.
\* initializeScene() replaces this.scene by a new, empty scene.
Initialize ==
  /\ initializeCalls < MaxInit
  /\ initializeCalls' = initializeCalls + 1
  /\ initLog' = TemplateHooks \o CapabilityHooks
  /\ sceneCalls' = sceneCalls + 1
  /\ lightingCalls' = lightingCalls + 1
  /\ resizeListeners' = resizeListeners + 1
  /\ clickListeners' = clickListeners + 1
  /\ sceneMeshes' = {}
  /\ lastOp' = "initialize"
  /\ err' = "none"
  /\ UNCHANGED <<objects, selectedObject, geometryDisposals,
                 materialDisposals, animationId, pending, nextRequest,
                 frameLog, disposeCalls, addCalls, stopped>>
  /\ UNCHANGED <<disposed, statsVars, factoryVars, foundationVars, helperVars>>

\* PerformanceMonitorMixin.updatePerformanceStats(): the threshold, in
\* milliseconds, after which the statistics are published
StatsPeriod == 1000

\* updatePerformanceStats(): the branch `currentTime - lastTime >= 1000`
StatsDue == now - lastTime >= StatsPeriod

\* updatePerformanceStats() reaches `this.performanceCallback?.(stats)` with a
\* callback registered.  Before initialize() getTriangleCount() throws on the
\* undefined this.scene, ahead of the callback.
CallbackRuns == SceneDefined /\ StatsDue /\ performanceCallback # "none"

\* the callback that runs inside this frame's update calls stop()
StopsInUpdate == CallbackRuns /\ performanceCallback = "stop"

\* animate(): what updateScene(deltaTime) executes; a stop() made by the
\* performance callback happens inside it
UpdateHooks ==
  IF StopsInUpdate THEN <<"update", "stop">> ELSE <<"update">>

\* variant of RenderHooks: animate() returns early when the loop was stopped
\* during the update
RenderHooksUnlessStopped ==
  IF SceneDefined /\ ~StopsInUpdate THEN <<"render">> ELSE <<>>

\* animate(): renderer.render(scene, camera); before initialize()
\* this.renderer is undefined and the call throws
RenderHooks == IF SceneDefined THEN <<"render">> ELSE <<>>

\* variant of FrameHooks: animate() renders before it updates
FrameHooksRenderFirst == RenderHooks \o UpdateHooks

\* the hooks one animate() call executes, in order
FrameHooks == UpdateHooks \o RenderHooks

\* AbstractSceneManager.animate(): request the next frame first, then
\* updateScene(), then renderer.render().  fired is the request whose
\* callback is running (Null when start() calls animate() directly).
\* updateScene() ends with updatePerformanceStats(); a stop() made by the
\* performance callback cancels the frame just requested.
Animate(fired) ==
  /\ nextRequest <= MaxRequests
  /\ animationId' = IF StopsInUpdate THEN Null ELSE nextRequest
  /\ pending' = IF StopsInUpdate
                  THEN pending \ {fired}
                  ELSE (pending \ {fired}) \cup {nextRequest}
  /\ nextRequest' = nextRequest + 1
  /\ frameCount' = IF SceneDefined /\ StatsDue THEN 0 ELSE frameCount + 1
  /\ lastTime' = IF SceneDefined /\ StatsDue THEN now ELSE lastTime
  /\ reportedFps' = IF CallbackRuns THEN frameCount + 1 ELSE reportedFps
  /\ frameTimes' = Append(frameTimes, now)
  /\ frameLog' = FrameHooks
  /\ err' = IF SceneDefined THEN "none" ELSE "TypeError"

\* AbstractSceneManager.start()
Start ==
  /\ Animate(Null)
  /\ lastOp' = "start"
  /\ stopped' = StopsInUpdate
  /\ UNCHANGED <<sceneCalls, lightingCalls, resizeListeners, clickListeners,
                 sceneMeshes, objects, selectedObject, geometryDisposals,
                 materialDisposals, disposeCalls, addCalls, initializeCalls>>
  /\ UNCHANGED <<disposed, now, performanceCallback, initLog, factoryVars,
                 foundationVars, helperVars>>

\* the browser runs a pending requestAnimationFrame callback
Frame ==
  \E id \in pending :
    /\ Animate(id)
    /\ lastOp' = "frame"
    /\ stopped' = (stopped \/ StopsInUpdate)
    /\ UNCHANGED <<sceneCalls, lightingCalls, resizeListeners,
                   clickListeners, sceneMeshes, objects, selectedObject,
                   geometryDisposals, materialDisposals, disposeCalls,
                   addCalls, initializeCalls>>
    /\ UNCHANGED <<disposed, now, performanceCallback, initLog, factoryVars,
                   foundationVars, helperVars>>

\* the body of stop(): cancel the request animationId names, then null it
StopLoop ==
  /\ pending' = IF animationId # Null THEN pending \ {animationId} ELSE pending
  /\ animationId' = Null

\* AbstractSceneManager.stop()
Stop ==
  /\ StopLoop
  /\ lastOp' = "stop"
  /\ err' = "none"
  /\ stopped' = (stopped \/ Running)
  /\ UNCHANGED <<sceneCalls, lightingCalls, resizeListeners, clickListeners,
                 sceneMeshes, objects, selectedObject, geometryDisposals,
                 materialDisposals, nextRequest, frameLog, disposeCalls,
                 addCalls, initializeCalls>>
  /\ UNCHANGED <<disposed, statsVars, initLog, factoryVars, foundationVars, helperVars>>

\* the meshes scene.traverse() visits and a recursive raycast into
\* scene.children can hit: the children of the scene and their descendants
InScene == sceneMeshes \cup UNION {Descendants(m) : m \in sceneMeshes}

\* scene.traverse() of dispose(): every Mesh in the scene gets one
\* geometry.dispose() / material.dispose() call
DisposeWalk(counts) ==
  [m \in AllMeshes |-> IF m \in InScene THEN counts[m] + 1 ELSE counts[m]]

\* AbstractSceneManager.dispose(): stop(), then the traversal, then
\* renderer.dispose().  Before initialize() this.scene is undefined and the
\* traversal throws after stop() has run.
Dispose ==
  /\ disposeCalls < MaxDispose
  /\ disposeCalls' = disposeCalls + 1
  /\ StopLoop
  /\ stopped' = (stopped \/ Running)
  /\ disposed' = (disposed \/ SceneDefined)
  /\ IF SceneDefined
       THEN /\ geometryDisposals' = DisposeWalk(geometryDisposals)
            /\ materialDisposals' = DisposeWalk(materialDisposals)
            /\ err' = "none"
       ELSE /\ UNCHANGED <<geometryDisposals, materialDisposals>>
            /\ err' = "TypeError"
  /\ lastOp' = "dispose"
  /\ UNCHANGED <<sceneCalls, lightingCalls, resizeListeners, clickListeners,
                 sceneMeshes, objects, selectedObject, nextRequest, frameLog,
                 addCalls, initializeCalls>>
  /\ UNCHANGED <<statsVars, initLog, factoryVars, foundationVars, helperVars>>

\* InteractiveSceneManager.addObject(mesh): scene.add(mesh) throws before
\* initialize(); otherwise the mesh joins the scene and is pushed.
AddObject ==
  \E m \in Meshes :
    /\ addCalls < MaxAdds
    /\ addCalls' = addCalls + 1
    /\ IF SceneDefined
         THEN /\ sceneMeshes' = sceneMeshes \cup {m}
              /\ objects' = Append(objects, m)
              /\ err' = "none"
         ELSE /\ UNCHANGED <<sceneMeshes, objects>>
              /\ err' = "TypeError"
    /\ lastOp' = "addObject"
    /\ UNCHANGED <<sceneCalls, lightingCalls, resizeListeners,
                   clickListeners, selectedObject, geometryDisposals,
                   materialDisposals, animationId, pending, nextRequest,
                   frameLog, disposeCalls, initializeCalls, stopped>>
    /\ UNCHANGED <<disposed, statsVars, initLog, factoryVars, foundationVars, helperVars>>

\* a click on the canvas over mesh m: handleMouseEvent() raycasts into
\* this.scene.children, recursively, and the onClick handler calls
\* selectObject(m) on the nearest hit
Click ==
  \E m \in InScene :
    /\ clickListeners > 0
    /\ selectedObject' = m
    /\ lastOp' = "click"
    /\ err' = "none"
    /\ UNCHANGED <<sceneCalls, lightingCalls, resizeListeners,
                   clickListeners, sceneMeshes, objects, geometryDisposals,
                   materialDisposals, animationId, pending, nextRequest,
                   frameLog, disposeCalls, addCalls, initializeCalls,
                   stopped>>
    /\ UNCHANGED <<disposed, statsVars, initLog, factoryVars, foundationVars, helperVars>>

\* InteractiveSceneManager.removeSelectedObject(); the model stops counting
\* the releases of one mesh at MaxReleases
RemoveSelectedObject ==
  /\ selectedObject # Null => geometryDisposals[selectedObject] < MaxReleases
  /\ IF selectedObject = Null
       THEN UNCHANGED <<sceneMeshes, geometryDisposals, materialDisposals,
                        objects, selectedObject>>
       ELSE /\ sceneMeshes' = sceneMeshes \ {selectedObject}
            /\ geometryDisposals' =
                 [geometryDisposals EXCEPT ![selectedObject] = @ + 1]
            /\ materialDisposals' =
                 [materialDisposals EXCEPT ![selectedObject] = @ + 1]
            /\ objects' = IF IndexOf(objects, selectedObject) > 0
                            THEN Splice(objects,
                                        IndexOf(objects, selectedObject))
                            ELSE objects
            /\ selectedObject' = Null
  /\ lastOp' = "removeSelectedObject"
  /\ err' = "none"
  /\ UNCHANGED <<sceneCalls, lightingCalls, resizeListeners, clickListeners,
                 animationId, pending, nextRequest, frameLog, disposeCalls,
                 addCalls, initializeCalls, stopped>>
  /\ UNCHANGED <<disposed, statsVars, initLog, factoryVars, foundationVars, helperVars>>

\* InteractiveSceneManager.clearAllObjects(): one scene.remove and one
\* dispose pair per element of this.objects
ClearAllObjects ==
  /\ sceneMeshes' = sceneMeshes \ Elements(objects)
  /\ geometryDisposals' =
       [m \in AllMeshes |-> geometryDisposals[m] + Count(objects, m)]
  /\ materialDisposals' =
       [m \in AllMeshes |-> materialDisposals[m] + Count(objects, m)]
  /\ objects' = <<>>
  /\ selectedObject' = Null
  /\ lastOp' = "clearAllObjects"
  /\ err' = "none"
  /\ UNCHANGED <<sceneCalls, lightingCalls, resizeListeners, clickListeners,
                 animationId, pending, nextRequest, frameLog, disposeCalls,
                 addCalls, initializeCalls, stopped>>
  /\ UNCHANGED <<disposed, statsVars, initLog, factoryVars, foundationVars, helperVars>>

\* the behaviours a caller can register with setPerformanceCallback():
\* a callback that records the statistics, and one that calls stop()
Callbacks == {"log", "stop"}

\* PerformanceMonitorMixin.setPerformanceCallback(callback)
SetPerformanceCallback ==
  \E cb \in Callbacks :
    /\ performanceCallback' = cb
    /\ lastOp' = "setPerformanceCallback"
    /\ err' = "none"
    /\ UNCHANGED <<sceneCalls, lightingCalls, resizeListeners,
                   clickListeners, sceneMeshes, objects, selectedObject,
                   geometryDisposals, materialDisposals, animationId,
                   pending, nextRequest, frameLog, disposeCalls, addCalls,
                   initializeCalls, stopped, disposed, now, lastTime,
                   frameCount, reportedFps, frameTimes, initLog>>
    /\ UNCHANGED <<factoryVars, foundationVars, helperVars>>

\* a 'mousemove' on the canvas: the listener setupInteraction() registered
\* calls handleMouseEvent(e, 'onMouseMove'); no handler is stored under
\* that key, so none is called
MouseMove ==
  /\ clickListeners > 0
  /\ lastOp' = "mousemove"
  /\ err' = "none"
  /\ UNCHANGED <<managerVars, factoryVars, foundationVars, helperVars>>

\* performance.now() advances between two events
Tick ==
  /\ now + TickMs <= MaxTime
  /\ now' = now + TickMs
  /\ UNCHANGED <<sceneCalls, lightingCalls, resizeListeners, clickListeners,
                 sceneMeshes, objects, selectedObject, geometryDisposals,
                 materialDisposals, animationId, pending, nextRequest,
                 frameLog, disposeCalls, addCalls, initializeCalls, stopped,
                 disposed, lastTime, frameCount, performanceCallback,
                 reportedFps, frameTimes, initLog>>
  /\ UNCHANGED <<factoryVars, foundationVars, helperVars, lastOp, err>>

Next ==
  \/ Initialize
  \/ Start
  \/ Frame
  \/ Stop
  \/ Dispose
  \/ AddObject
  \/ Click
  \/ RemoveSelectedObject
  \/ ClearAllObjects

Spec == Init /\ [][Next]_vars

\* the frame loop with the clock and the performance callback: the lifecycle
\* operations, the operations the two capabilities add that need no object
\* in the scene, and the passage of time
LoopNext ==
  \/ Initialize
  \/ Start
  \/ Frame
  \/ Stop
  \/ Dispose
  \/ SetPerformanceCallback
  \/ MouseMove
  \/ Tick

LoopSpec == Init /\ [][LoopNext]_vars

\* ======================================================== TypedObjectFactory
\* GeometryType / MaterialType: the tags createGeometry / createMaterial
\* have a case for
GeometryTypes == {"box", "sphere", "cone", "cylinder", "torus", "plane",
                  "dodecahedron", "icosahedron", "octahedron", "tetrahedron",
                  "ring", "circle"}
MaterialTypes == {"basic", "lambert", "phong", "standard", "physical", "toon",
                  "normal", "depth", "wireframe"}

\* the tags a caller passes in this model: members of the enumerations and
\* one tag outside each ("hexagon", "neon")
GeometryInputs == {"box", "torus", "hexagon"}
MaterialInputs == {"basic", "neon"}
Configs == [geometry : GeometryInputs, material : MaterialInputs]

\* variant of CreateGeometry: the switch has no case for 'circle'
CreateGeometryWithoutCircle(type) ==
  CASE type = "box" -> "BoxGeometry"
    [] type = "sphere" -> "SphereGeometry"
    [] type = "cone" -> "ConeGeometry"
    [] type = "cylinder" -> "CylinderGeometry"
    [] type = "torus" -> "TorusGeometry"
    [] type = "plane" -> "PlaneGeometry"
    [] type = "dodecahedron" -> "DodecahedronGeometry"
    [] type = "icosahedron" -> "IcosahedronGeometry"
    [] type = "octahedron" -> "OctahedronGeometry"
    [] type = "tetrahedron" -> "TetrahedronGeometry"
    [] type = "ring" -> "RingGeometry"
    [] OTHER -> "Error"

\* TypedGeometryFactory.createGeometry: the class constructed for the tag,
\* "Error" for the default branch (throw new Error)
CreateGeometry(type) ==
  CASE type = "box" -> "BoxGeometry"
    [] type = "sphere" -> "SphereGeometry"
    [] type = "cone" -> "ConeGeometry"
    [] type = "cylinder" -> "CylinderGeometry"
    [] type = "torus" -> "TorusGeometry"
    [] type = "plane" -> "PlaneGeometry"
    [] type = "dodecahedron" -> "DodecahedronGeometry"
    [] type = "icosahedron" -> "IcosahedronGeometry"
    [] type = "octahedron" -> "OctahedronGeometry"
    [] type = "tetrahedron" -> "TetrahedronGeometry"
    [] type = "ring" -> "RingGeometry"
    [] type = "circle" -> "CircleGeometry"
    [] OTHER -> "Error"

\* TypedGeometryFactory.createMaterial
CreateMaterial(type) ==
  CASE type = "basic" -> "MeshBasicMaterial"
    [] type = "lambert" -> "MeshLambertMaterial"
    [] type = "phong" -> "MeshPhongMaterial"
    [] type = "standard" -> "MeshStandardMaterial"
    [] type = "physical" -> "MeshPhysicalMaterial"
    [] type = "toon" -> "MeshToonMaterial"
    [] type = "normal" -> "MeshNormalMaterial"
    [] type = "depth" -> "MeshDepthMaterial"
    [] type = "wireframe" -> "MeshBasicMaterial"
    [] OTHER -> "Error"

\* a handle as the constructor returns it: allocated and not disposed
NewHandle(class) == [class |-> class, live |-> TRUE]

\* TypedObjectFactory.createMesh on the factory state st = [heap, made, err]:
\* createGeometry, then createMaterial, then new THREE.Mesh.  A throw leaves
\* what was constructed before it as it is.
CreateMesh(st, config) ==
  IF CreateGeometry(config.geometry) = "Error"
    THEN [st EXCEPT !.err = "Error"]
    ELSE LET withGeometry ==
               Append(st.heap, NewHandle(CreateGeometry(config.geometry)))
         IN IF CreateMaterial(config.material) = "Error"
              THEN [st EXCEPT !.heap = withGeometry, !.err = "Error"]
              ELSE [heap |-> Append(withGeometry,
                               NewHandle(CreateMaterial(config.material))),
                    made |-> Append(st.made,
                               [geometry |-> Len(withGeometry),
                                material |-> Len(withGeometry) + 1]),
                    err |-> "none"]

\* configs.map(config => this.createMesh(config)): left to right, the first
\* throw ends the map
RECURSIVE CreateMeshes(_, _)
CreateMeshes(st, configs) ==
  IF configs = <<>> \/ st.err # "none"
    THEN st
    ELSE CreateMeshes(CreateMesh(st, Head(configs)), Tail(configs))

\* the handles of the heap that are allocated and not disposed
LiveHandles == {h \in DOMAIN heap : heap[h].live}

\* the sequences over S of length 0..n
SeqsUpTo(S, n) == UNION {[1..k -> S] : k \in 0..n}

\* a caller calls TypedObjectFactory.createMesh(config)
CallCreateMesh ==
  \E config \in Configs :
    LET st == CreateMesh([heap |-> heap, made |-> <<>>, err |-> "none"],
                         config)
    IN /\ Len(heap) + 2 <= MaxHandles
       /\ heap' = st.heap
       /\ meshes' = meshes \o st.made
       /\ lastAllocated' = (DOMAIN st.heap) \ (DOMAIN heap)
       /\ lastMade' = st.made
       /\ err' = st.err
       /\ lastOp' = "createMesh"
       /\ UNCHANGED <<managerVars, foundationVars, helperVars>>

\* a caller calls TypedObjectFactory.createMeshes(configs); the array is
\* returned only when no element threw
CallCreateMeshes ==
  \E configs \in SeqsUpTo(Configs, MaxBatch) :
    LET st == CreateMeshes([heap |-> heap, made |-> <<>>, err |-> "none"],
                           configs)
    IN /\ Len(heap) + 2 * Len(configs) <= MaxHandles
       /\ heap' = st.heap
       /\ meshes' = IF st.err = "none" THEN meshes \o st.made ELSE meshes
       /\ lastAllocated' = (DOMAIN st.heap) \ (DOMAIN heap)
       /\ lastMade' = st.made
       /\ err' = st.err
       /\ lastOp' = "createMeshes"
       /\ UNCHANGED <<managerVars, foundationVars, helperVars>>

FactoryNext ==
  \/ CallCreateMesh
  \/ CallCreateMeshes

FactorySpec == Init /\ [][FactoryNext]_vars

\* ===================================================== claims (FactorySpec)
\* C5: when createMeshes has failed after constructing some meshes, none of
\* the geometry or material handles that call allocated is still live.
C5_CreateMeshesLeavesNoLiveHandle ==
  (lastOp = "createMeshes" /\ err # "none" /\ lastMade # <<>>)
    => lastAllocated \cap LiveHandles = {}

\* C6: when createMesh has failed, the geometry handle it allocated before
\* the material construction failed has been released.
C6_CreateMeshLeavesNoOrphan ==
  (lastOp = "createMesh" /\ err # "none")
    => lastAllocated \cap LiveHandles = {}

\* ====================================================== TypedGeometryFactory
\* GeometryInstance<T>: the class the type system promises for a tag
GeometryInstance(type) ==
  CASE type = "box" -> "BoxGeometry"
    [] type = "sphere" -> "SphereGeometry"
    [] type = "cone" -> "ConeGeometry"
    [] type = "cylinder" -> "CylinderGeometry"
    [] type = "torus" -> "TorusGeometry"
    [] type = "plane" -> "PlaneGeometry"
    [] type = "ring" -> "RingGeometry"
    [] type = "circle" -> "CircleGeometry"
    [] type = "dodecahedron" -> "DodecahedronGeometry"
    [] type = "icosahedron" -> "IcosahedronGeometry"
    [] type = "octahedron" -> "OctahedronGeometry"
    [] type = "tetrahedron" -> "TetrahedronGeometry"
    [] OTHER -> "BufferGeometry"

\* MaterialInstance<T>
MaterialInstance(type) ==
  CASE type = "basic" -> "MeshBasicMaterial"
    [] type = "lambert" -> "MeshLambertMaterial"
    [] type = "phong" -> "MeshPhongMaterial"
    [] type = "standard" -> "MeshStandardMaterial"
    [] type = "physical" -> "MeshPhysicalMaterial"
    [] type = "toon" -> "MeshToonMaterial"
    [] type = "normal" -> "MeshNormalMaterial"
    [] type = "depth" -> "MeshDepthMaterial"
    [] type = "wireframe" -> "MeshBasicMaterial"
    [] OTHER -> "Material"

\* a config as a caller writes it: an optional field is <<>> when omitted
\* and <<v>> when supplied.  size stands for the first dimension of the
\* shape (width, radius), segments for its segment count (widthSegments,
\* radialSegments, thetaSegments, segments, detail).
EmptyConfig == [size |-> <<>>, segments |-> <<>>]
SizeInputs == {<<>>, <<2>>}
SegmentInputs == {<<>>, <<-1>>, <<0>>, <<3>>}
GeometryConfigs == [size : SizeInputs, segments : SegmentInputs]

\* the tags a caller passes to the part factory: every member of the
\* enumerations and one tag outside each
GeometryTags == GeometryTypes \cup {"hexagon"}
MaterialTags == MaterialTypes \cup {"neon"}

\* variant of Coalesce: the operator ||, which also replaces a supplied 0
CoalesceFalsy(field, default) ==
  IF field = <<>> \/ field[1] = 0 THEN default ELSE field[1]

\* the operator ??: the default replaces only an omitted field
Coalesce(field, default) == IF field = <<>> THEN default ELSE field[1]

\* createGeometry: the segment count the constructor of the tag receives
\* when the field is omitted; the box and plane branches pass none
SegmentsDefault(type) ==
  CASE type = "sphere" -> <<32>>
    [] type \in {"cone", "cylinder", "torus", "ring", "circle"} -> <<8>>
    [] type \in {"dodecahedron", "icosahedron", "octahedron",
                 "tetrahedron"} -> <<0>>
    [] OTHER -> <<>>

\* createGeometry: the arguments handed to the THREE constructor; no branch
\* tests a supplied value
GeometryArgs(type, cfg) ==
  [size |-> <<Coalesce(cfg.size, 1)>>,
   segments |-> IF SegmentsDefault(type) = <<>>
                  THEN <<>>
                  ELSE <<Coalesce(cfg.segments, SegmentsDefault(type)[1])>>]

\* a caller calls TypedGeometryFactory.createGeometry(type, config)
CallCreateGeometry ==
  \E type \in GeometryTags, cfg \in GeometryConfigs :
    /\ cgType' = type
    /\ cgConfig' = cfg
    /\ IF CreateGeometry(type) = "Error"
         THEN /\ cgClass' = "none"
              /\ cgArgs' = EmptyConfig
              /\ err' = "Error"
         ELSE /\ cgClass' = CreateGeometry(type)
              /\ cgArgs' = GeometryArgs(type, cfg)
              /\ err' = "none"
    /\ lastOp' = "createGeometry"
    /\ UNCHANGED <<managerVars, factoryVars, foundationVars, meshVars,
                   builderVars>>

\* a caller calls TypedGeometryFactory.createMaterial(type) with the
\* default config {}
CallCreateMaterial ==
  \E type \in MaterialTags :
    /\ cgType' = type
    /\ cgConfig' = EmptyConfig
    /\ cgArgs' = EmptyConfig
    /\ IF CreateMaterial(type) = "Error"
         THEN cgClass' = "none" /\ err' = "Error"
         ELSE cgClass' = CreateMaterial(type) /\ err' = "none"
    /\ lastOp' = "createMaterial"
    /\ UNCHANGED <<managerVars, factoryVars, foundationVars, meshVars,
                   builderVars>>

\* ---------------------------------------- createMesh: transform, userData
\* the values a caller writes on an axis of position and rotation, and of
\* scale: omitted, or a value (for scale also 0, which differs from the
\* default)
AxisInputs == {<<>>, <<2>>}
ScaleAxisInputs == {<<>>, <<0>>, <<2>>}

\* Vector3Like with independent optional axes; an optional group of Transform
VectorInputs(axes) == [x : axes, y : axes, z : axes]
GroupInputs(axes) == {<<>>} \cup {<<v>> : v \in VectorInputs(axes)}

\* config.transform: omitted, or a Transform
TransformInputs ==
  {<<>>} \cup {<<t>> : t \in [position : GroupInputs(AxisInputs),
                             rotation : GroupInputs(AxisInputs),
                             scale : GroupInputs(ScaleAxisInputs)]}

\* config.userData: omitted, or an object with a primitive field and a
\* field that refers to a nested object (nested is that object's content)
UserDataInputs == {<<>>, <<[flat |-> 1, nested |-> 1]>>}

\* position, rotation and scale of a new THREE.Mesh
NewMeshTransform ==
  [position |-> [x |-> 0, y |-> 0, z |-> 0],
   rotation |-> [x |-> 0, y |-> 0, z |-> 0],
   scale |-> [x |-> 1, y |-> 1, z |-> 1]]

\* applyTransform: `if (transform.g) object.g.set(g.x ?? d, g.y ?? d,
\* g.z ?? d)` for one group g with default d
SetGroup(current, group, default) ==
  IF group = <<>>
    THEN current
    ELSE [x |-> Coalesce(group[1].x, default),
          y |-> Coalesce(group[1].y, default),
          z |-> Coalesce(group[1].z, default)]

\* TypedObjectFactory.applyTransform(object, transform)
ApplyTransform(object, transform) ==
  IF transform = <<>>
    THEN object
    ELSE [position |-> SetGroup(object.position, transform[1].position, 0),
          rotation |-> SetGroup(object.rotation, transform[1].rotation, 0),
          scale |-> SetGroup(object.scale, transform[1].scale, 1)]

\* the options a caller passes besides geometry and material in this model:
\* any transform without userData, or userData without a transform
MeshOptionInputs ==
  {[transform |-> t, userData |-> <<>>] : t \in TransformInputs}
    \cup {[transform |-> <<>>, userData |-> u] : u \in UserDataInputs}

\* a caller calls TypedObjectFactory.createMesh(config) with a valid
\* geometry and material: new THREE.Mesh, then
\* `mesh.userData = { ...config.userData }` (the primitive field is copied,
\* the nested object is shared), then applyTransform
CallCreateMeshOptions ==
  \E config \in MeshOptionInputs :
    /\ cmTransform' = config.transform
    /\ cmMesh' = ApplyTransform(NewMeshTransform, config.transform)
    /\ cmGiven' = config.userData
    /\ cmUserData' = config.userData
    /\ cmMeshFlat' = IF config.userData = <<>>
                       THEN <<>>
                       ELSE <<config.userData[1].flat>>
    /\ lastOp' = "createMesh.options"
    /\ err' = "none"
    /\ UNCHANGED <<managerVars, factoryVars, foundationVars, constructVars,
                   builderVars>>

\* the caller writes through the mesh it received:
\* mesh.userData.flat = 2 changes the mesh's own copy,
\* mesh.userData.nested.value = 2 changes the object config.userData shares
WriteMeshUserData ==
  \E field \in {"flat", "nested"} :
    /\ cmUserData # <<>>
    /\ IF field = "flat"
         THEN cmMeshFlat' = <<2>> /\ UNCHANGED cmUserData
         ELSE /\ cmUserData' = <<[cmUserData[1] EXCEPT !.nested = 2]>>
              /\ UNCHANGED cmMeshFlat
    /\ lastOp' = "write.userData"
    /\ err' = "none"
    /\ UNCHANGED <<cmTransform, cmMesh, cmGiven>>
    /\ UNCHANGED <<managerVars, factoryVars, foundationVars, constructVars,
                   builderVars>>

ConstructNext ==
  \/ CallCreateGeometry
  \/ CallCreateMaterial

ConstructSpec == Init /\ [][ConstructNext]_vars

\* createMesh with a transform or userData, and the caller's later writes
MeshNext ==
  \/ CallCreateMeshOptions
  \/ WriteMeshUserData

MeshSpec == Init /\ [][MeshNext]_vars

\* ====================================================== SceneManagerBuilder
\* the colours and positions a caller passes to the with* methods
BackgroundColors == {"0x0a0a1a", "0xffffff"}

CameraPositions == {<<5, 5, 5>>, <<0, 0, 10>>}

\* new InteractiveSceneManager() followed by initialize(): initializeScene()
\* sets the camera position, the background and the shadow map,
\* initialize() calls setupInteraction(), and no performance callback is set
InitializedManager ==
  [background |-> "0x0a0a1a",
   cameraPosition |-> <<5, 5, 5>>,
   shadowMap |-> TRUE,
   interaction |-> TRUE,
   performanceCallback |-> FALSE]

\* what every with* method leaves alone
WithUnchanged ==
  /\ err' = "none"
  /\ UNCHANGED <<sbManager, sbGiven>>
  /\ UNCHANGED <<managerVars, factoryVars, foundationVars, constructVars,
                 meshVars>>

WithShadows ==
  \E enabled \in BOOLEAN :
    /\ sbConfig' = [sbConfig EXCEPT !.enableShadows = enabled]
    /\ lastOp' = "withShadows"
    /\ WithUnchanged

WithInteraction ==
  \E enabled \in BOOLEAN :
    /\ sbConfig' = [sbConfig EXCEPT !.enableInteraction = enabled]
    /\ lastOp' = "withInteraction"
    /\ WithUnchanged

WithPerformanceMonitoring ==
  \E enabled \in BOOLEAN :
    /\ sbConfig' = [sbConfig EXCEPT !.enablePerformanceMonitoring = enabled]
    /\ lastOp' = "withPerformanceMonitoring"
    /\ WithUnchanged

WithBackgroundColor ==
  \E color \in BackgroundColors :
    /\ sbConfig' = [sbConfig EXCEPT !.backgroundColor = color]
    /\ lastOp' = "withBackgroundColor"
    /\ WithUnchanged

WithCameraPosition ==
  \E position \in CameraPositions :
    /\ sbConfig' = [sbConfig EXCEPT !.cameraPosition = position]
    /\ lastOp' = "withCameraPosition"
    /\ WithUnchanged

\* SceneManagerBuilder.build(): a new manager, initialize(), then the
\* background, the camera position and the shadow map from this.config, and
\* a callback if enablePerformanceMonitoring; enableInteraction is not read
Build ==
  /\ sbManager' =
       <<[InitializedManager EXCEPT
            !.background = sbConfig.backgroundColor,
            !.cameraPosition = sbConfig.cameraPosition,
            !.shadowMap = sbConfig.enableShadows,
            !.performanceCallback =
               IF sbConfig.enablePerformanceMonitoring THEN TRUE ELSE @]>>
  /\ sbGiven' = <<sbConfig>>
  /\ lastOp' = "build"
  /\ err' = "none"
  /\ UNCHANGED sbConfig
  /\ UNCHANGED <<managerVars, factoryVars, foundationVars, constructVars,
                 meshVars>>

BuilderNext ==
  \/ WithShadows
  \/ WithInteraction
  \/ WithPerformanceMonitoring
  \/ WithBackgroundColor
  \/ WithCameraPosition
  \/ Build

BuilderSpec == Init /\ [][BuilderNext]_vars

\* ========================================================== FoundationScene
\* object.uuid: the id an object is registered under when none is passed
Uuid(o) == NumExplicitIds + o

\* managedObjects.size
Size == Cardinality({i \in Ids : managedObjects[i] # Null})

\* FoundationScene.addObject(object, id?): objectId = id || object.uuid,
\* scene.add(object), managedObjects.set(objectId, object)
FsAddObject ==
  \E o \in Objects3D, id \in ExplicitIds \cup {Null} :
    LET objectId == IF id # Null THEN id ELSE Uuid(o)
    IN /\ sceneChildren' = sceneChildren \cup {o}
       /\ managedObjects' = [managedObjects EXCEPT ![objectId] = o]
       /\ lastId' = objectId
       /\ lastResult' = "id"
       /\ sizeBeforeAdd' = Size
       /\ lastOp' = "fs.addObject"
       /\ err' = "none"
       /\ UNCHANGED <<isDisposed, fsAnimationId, fsPending, fsNextRequest,
                      resizeHandler, fsDisposals>>
       /\ UNCHANGED <<managerVars, factoryVars, helperVars>>

\* FoundationScene.removeObject(id): scene.remove(object) and
\* managedObjects.delete(id); no dispose() call is made on the object
FsRemoveObject ==
  \E id \in Ids :
    /\ IF managedObjects[id] # Null
         THEN /\ sceneChildren' = sceneChildren \ {managedObjects[id]}
              /\ managedObjects' = [managedObjects EXCEPT ![id] = Null]
              /\ lastResult' = "true"
         ELSE /\ UNCHANGED <<sceneChildren, managedObjects>>
              /\ lastResult' = "false"
    /\ lastId' = id
    /\ lastOp' = "fs.removeObject"
    /\ err' = "none"
    /\ UNCHANGED <<isDisposed, fsAnimationId, fsPending, fsNextRequest,
                   resizeHandler, sizeBeforeAdd, fsDisposals>>
    /\ UNCHANGED <<managerVars, factoryVars, helperVars>>

\* the animate closure of startAnimation(): request the next frame, render
FsAnimate(fired) ==
  /\ fsNextRequest <= MaxRequests
  /\ fsAnimationId' = fsNextRequest
  /\ fsPending' = (fsPending \ {fired}) \cup {fsNextRequest}
  /\ fsNextRequest' = fsNextRequest + 1

\* FoundationScene.startAnimation(): nothing when already started
FsStartAnimation ==
  /\ IF fsAnimationId # Null
       THEN UNCHANGED <<fsAnimationId, fsPending, fsNextRequest>>
       ELSE FsAnimate(Null)
  /\ lastOp' = "fs.startAnimation"
  /\ err' = "none"
  /\ UNCHANGED <<managedObjects, sceneChildren, isDisposed, resizeHandler,
                 lastId, lastResult, sizeBeforeAdd, fsDisposals>>
  /\ UNCHANGED <<managerVars, factoryVars, helperVars>>

\* the browser runs a pending animate callback of the FoundationScene
FsFrame ==
  \E id \in fsPending :
    /\ FsAnimate(id)
    /\ lastOp' = "fs.frame"
    /\ err' = "none"
    /\ UNCHANGED <<managedObjects, sceneChildren, isDisposed, resizeHandler,
                   lastId, lastResult, sizeBeforeAdd, fsDisposals>>
    /\ UNCHANGED <<managerVars, factoryVars, helperVars>>

\* the body of stopAnimation()
FsStopLoop ==
  /\ fsPending' = IF fsAnimationId # Null
                    THEN fsPending \ {fsAnimationId} ELSE fsPending
  /\ fsAnimationId' = Null

\* FoundationScene.stopAnimation()
FsStopAnimation ==
  /\ FsStopLoop
  /\ lastOp' = "fs.stopAnimation"
  /\ err' = "none"
  /\ UNCHANGED <<managedObjects, sceneChildren, isDisposed, fsNextRequest,
                 resizeHandler, lastId, lastResult, sizeBeforeAdd,
                 fsDisposals>>
  /\ UNCHANGED <<managerVars, factoryVars, helperVars>>

\* FoundationScene.dispose(): returns at once when already disposed;
\* otherwise stopAnimation(), every managed object leaves the scene, the
\* map is cleared, the resize listener is removed; only the renderer is
\* disposed, no object's geometry or material
FsDispose ==
  /\ IF isDisposed
       THEN UNCHANGED <<managedObjects, sceneChildren, isDisposed,
                        fsAnimationId, fsPending, resizeHandler>>
       ELSE /\ FsStopLoop
            /\ sceneChildren' =
                 sceneChildren \ {managedObjects[i] : i \in Ids}
            /\ managedObjects' = [i \in Ids |-> Null]
            /\ resizeHandler' = FALSE
            /\ isDisposed' = TRUE
  /\ lastOp' = "fs.dispose"
  /\ err' = "none"
  /\ UNCHANGED <<fsNextRequest, lastId, lastResult, sizeBeforeAdd,
                 fsDisposals>>
  /\ UNCHANGED <<managerVars, factoryVars, helperVars>>

FoundationNext ==
  \/ FsAddObject
  \/ FsRemoveObject
  \/ FsStartAnimation
  \/ FsFrame
  \/ FsStopAnimation
  \/ FsDispose

FoundationSpec == Init /\ [][FoundationNext]_vars

\* ================================================== claims (FoundationSpec)
\* C7: an addObject call whose id is already present in the graph fails with
\* DuplicateIdError and leaves the entry stored under that id as it was.
C7_DuplicateIdRejected ==
  [][(lastOp' = "fs.addObject" /\ managedObjects[lastId'] # Null)
       => (err' = "DuplicateIdError"
           /\ managedObjects'[lastId'] = managedObjects[lastId'])]_vars

\* ============================================================ claims (Spec)
\* the meshes the manager holds: children of the scene or elements of objects
Owned == sceneMeshes \cup Elements(objects)

\* the meshes whose geometry / material handle has been released
ReleasedGeometries == {m \in Meshes : geometryDisposals[m] > 0}
ReleasedMaterials == {m \in Meshes : materialDisposals[m] > 0}

\* graph entries, released handles, loop status, registered listeners
Observable == <<sceneMeshes, objects, ReleasedGeometries, ReleasedMaterials,
                animationId, pending, resizeListeners, clickListeners>>

\* C1: a dispose() that directly follows a dispose() leaves the observable
\* state (graph entries, released handles, loop status, listeners) as the
\* first call left it and raises no error.
C1_DisposeIdempotent ==
  [][(lastOp = "dispose" /\ disposeCalls' = disposeCalls + 1)
       => (Observable' = Observable /\ err' = "none")]_vars

\* C2: when dispose() has returned, the geometry and the material handle of
\* every mesh the graph owned are released, and no handle has been released
\* more than once.
C2_DisposeReleasesEachOnce ==
  lastOp = "dispose" =>
    /\ \A m \in Owned : geometryDisposals[m] >= 1 /\ materialDisposals[m] >= 1
    /\ \A m \in Meshes : geometryDisposals[m] <= 1 /\ materialDisposals[m] <= 1

\* C3: once a dispose() call has completed, every later initialize, start, stop,
\* add or remove call fails with InvalidStateError and no frame loop runs.
C3_DisposedIsTerminal ==
  (disposed /\ lastOp \in {"initialize", "start", "stop", "addObject",
                                   "removeSelectedObject", "clearAllObjects"})
    => (err = "InvalidStateError" /\ pending = {} /\ animationId = Null)

\* C4: every mesh present in the graph has a geometry handle and a material
\* handle that were never released.
C4_PresentImpliesValidHandles ==
  \A m \in Owned : geometryDisposals[m] = 0 /\ materialDisposals[m] = 0

\* C8: start() before initialize() fails with InvalidStateError, schedules no
\* frame and leaves the manager uninitialized.
C8_StartBeforeInitializeFails ==
  (lastOp = "start" /\ initializeCalls = 0)
    => (err = "InvalidStateError" /\ pending = {} /\ animationId = Null
        /\ sceneCalls = 0)

\* C9: after any number of initialize() calls each of the build-scene,
\* build-lighting and attach-event-source hooks has been called exactly once.
C9_SecondInitializeIsNoOp ==
  initializeCalls >= 1 =>
    (sceneCalls = 1 /\ lightingCalls = 1 /\ resizeListeners = 1)

\* C10: after stop() was called on a Running manager no frame (update,
\* render) executes until start() is called again.
C10_NoFrameAfterStop == ~(stopped /\ lastOp = "frame")

\* ------------------------------------------------------------------- C11
\* the last operation ran animate(): start() or a frame callback
AnimateRan == lastOp \in {"start", "frame"}

\* C11: cancellation is observed only at a frame boundary.  When stop() is
\* called while a frame's update is executing, that frame's render still
\* executes, and what stop() cancelled is the frame requested for later: the
\* frame log of such a call is update, stop, render, and afterwards
\* animationId is null and the request made by this call is not pending.
C11_StopInUpdateStillRenders ==
  (AnimateRan /\ Count(frameLog, "stop") > 0) =>
    /\ frameLog = <<"update", "stop", "render">>
    /\ animationId = Null
    /\ (nextRequest - 1) \notin pending

\* C11 witness: a frame callback whose update called stop()
C11_Witness ==
  lastOp = "frame" /\ Count(frameLog, "stop") > 0 /\ stopped

\* ------------------------------------------------------------------- C12
\* C12: dispose() stops the loop if it is running and only then releases the
\* scene graph: once dispose() has run on a running manager, and no start()
\* was called since, no frame callback executes any more (no update, no
\* render).
C12_NoFrameAfterDispose == ~(disposed /\ stopped /\ lastOp = "frame")

\* ------------------------------------------------------------------- C13
\* the update and render hooks of a frame log, in order
Phases(log) == SelectSeq(log, LAMBDA h : h \in {"update", "render"})

\* C13: while Running each frame invokes update(deltaTime) and then render(),
\* strictly one after the other: every animate() call of an initialized
\* manager executes exactly one update followed by exactly one render, so a
\* render never precedes its update and one call's pair is complete before
\* another call's pair begins, also when two loops are pending.
C13_UpdateThenRender ==
  (AnimateRan /\ SceneDefined) => Phases(frameLog) = <<"update", "render">>

\* C13 witness: a frame callback ran to completion while another frame
\* request was pending besides the one it made
C13_Witness ==
  /\ lastOp = "frame"
  /\ SceneDefined
  /\ Cardinality(pending) >= 2
  /\ frameLog = <<"update", "render">>

\* ------------------------------------------------------------------- C14
\* the hooks of the template method, as a set
TemplateSet == {"initializeScene", "setupLighting", "setupEventListeners"}

\* C14: initialize() runs the build-scene hook, then the build-lighting hook,
\* then the attach-event-source hook, each once and in this order, and every
\* capability-specific initialization step runs only after all three.
C14_HooksInOrder ==
  initLog # <<>> =>
    /\ \A h \in TemplateSet : Count(initLog, h) = 1
    /\ IndexOf(initLog, "initializeScene") < IndexOf(initLog, "setupLighting")
    /\ IndexOf(initLog, "setupLighting")
         < IndexOf(initLog, "setupEventListeners")
    /\ \A i \in DOMAIN initLog :
         initLog[i] \notin TemplateSet =>
           i > IndexOf(initLog, "setupEventListeners")

\* C14 witness: initialize() has run its template hooks and the
\* capability-specific steps
C14_Witness ==
  /\ lastOp = "initialize"
  /\ Count(initLog, "setupInteraction") = 1
  /\ Count(initLog, "setupEventListeners") = 1

\* ------------------------------------------------------------------- C15
\* C15: remove(id) for an id present in the graph detaches the Drawable and
\* releases its underlying geometry and material handles: a removeObject(id)
\* call that returns true leaves the id unmapped, the object outside the
\* scene, and has made a dispose() call on the object's handles.
C15_RemoveReleasesHandles ==
  [][(/\ lastOp' = "fs.removeObject"
      /\ lastResult' = "true"
      /\ managedObjects[lastId'] # Null)
       => /\ managedObjects'[lastId'] = Null
          /\ managedObjects[lastId'] \notin sceneChildren'
          /\ fsDisposals'[managedObjects[lastId']]
               > fsDisposals[managedObjects[lastId']]]_vars

\* ------------------------------------------------------------------- C16
\* C16: after add(d) followed by remove(id) with the id add returned, the
\* size of the graph equals its size before the add and lookup(id) finds
\* nothing; a further remove(id) returns false.
C16_AddThenRemoveRestoresSize ==
  [][/\ (lastOp = "fs.addObject" /\ lastOp' = "fs.removeObject"
           /\ lastId' = lastId)
          => (Size' = sizeBeforeAdd /\ managedObjects'[lastId] = Null)
     /\ (lastOp = "fs.removeObject" /\ lastOp' = "fs.removeObject"
           /\ lastId' = lastId)
          => lastResult' = "false"]_vars

\* ------------------------------------------------------------------- C17
\* C17: add(drawable) without an id generates an id that is unique within the
\* graph: the id differs from every id already present, the size grows by
\* exactly one, and no existing entry is replaced.
C17_GeneratedIdIsFresh ==
  [][(lastOp' = "fs.addObject" /\ lastId' \notin ExplicitIds)
       => /\ managedObjects[lastId'] = Null
          /\ Size' = Size + 1
          /\ \A i \in Ids : managedObjects[i] # Null
                            => managedObjects'[i] = managedObjects[i]]_vars

\* ------------------------------------------------------------------- C18
\* C18: ownership is exclusive: a Drawable is never registered under two
\* entries of the same graph; no mesh occurs twice in the managed objects
\* of an InteractiveSceneManager.
C18_NoMeshRegisteredTwice == \A m \in Meshes : Count(objects, m) <= 1

\* ------------------------------------------------------------------- C20
\* AbstractSceneManager without capabilities: the lifecycle state, and its
\* four lifecycle operations and frame callback as part_000:29-78 define
\* them for a subclass that adds no capability.  The abstract updateScene()
\* hook is caller code and may call stop().
lifecycleVars == <<sceneCalls, lightingCalls, resizeListeners, animationId,
                   pending, nextRequest>>

LifecycleOps == {"initialize", "start", "stop", "dispose", "frame"}

BaseInitialize ==
  /\ sceneCalls' = sceneCalls + 1
  /\ lightingCalls' = lightingCalls + 1
  /\ resizeListeners' = resizeListeners + 1
  /\ lastOp' = "initialize"
  /\ err' = "none"
  /\ UNCHANGED <<animationId, pending, nextRequest>>

BaseAnimate(fired, hookStops) ==
  /\ animationId' = IF hookStops THEN Null ELSE nextRequest
  /\ pending' = IF hookStops
                  THEN pending \ {fired}
                  ELSE (pending \ {fired}) \cup {nextRequest}
  /\ nextRequest' = nextRequest + 1
  /\ err' = IF SceneDefined THEN "none" ELSE "TypeError"
  /\ UNCHANGED <<sceneCalls, lightingCalls, resizeListeners>>

BaseStart ==
  \E hookStops \in BOOLEAN :
    BaseAnimate(Null, hookStops) /\ lastOp' = "start"

BaseFrame ==
  \E id \in pending, hookStops \in BOOLEAN :
    BaseAnimate(id, hookStops) /\ lastOp' = "frame"

BaseStop ==
  /\ StopLoop
  /\ lastOp' = "stop"
  /\ err' = "none"
  /\ UNCHANGED <<sceneCalls, lightingCalls, resizeListeners, nextRequest>>

BaseDispose ==
  /\ StopLoop
  /\ lastOp' = "dispose"
  /\ err' = IF SceneDefined THEN "none" ELSE "TypeError"
  /\ UNCHANGED <<sceneCalls, lightingCalls, resizeListeners, nextRequest>>

\* an operation that is no lifecycle operation leaves the lifecycle state
\* alone
NonLifecycleStep ==
  /\ lastOp' \notin LifecycleOps
  /\ UNCHANGED lifecycleVars

BaseNext ==
  \/ BaseInitialize
  \/ BaseStart
  \/ BaseFrame
  \/ BaseStop
  \/ BaseDispose
  \/ NonLifecycleStep

\* C20: capabilities do not alter the lifecycle state machine.  Every step of
\* the manager with both capabilities is, on the lifecycle state and on the
\* outcome of the call, a step of the manager without capabilities: each
\* initialize/start/stop/dispose call and each frame callback changes the
\* lifecycle state and succeeds or fails as AbstractSceneManager alone does,
\* and every capability operation leaves the lifecycle state unchanged.
C20_CapabilitiesKeepLifecycle == [][BaseNext]_<<lifecycleVars, lastOp, err>>

\* C20 witness: a frame callback ran on a manager whose two capabilities
\* are in use: the pointer listeners are registered and the performance
\* callback has been invoked
C20_Witness ==
  /\ lastOp = "frame"
  /\ clickListeners > 0
  /\ performanceCallback # "none"
  /\ reportedFps > 0

\* ------------------------------------------------------------------- C21
\* the most recent call constructed with the default config {}
ConstructedWithDefaults ==
  lastOp \in {"createGeometry", "createMaterial"} /\ cgConfig = EmptyConfig

\* the outcome the enumerations and the instance types require of the most
\* recent call, failing with the error named failure for a tag outside
ConstructOutcome(failure) ==
  /\ lastOp = "createGeometry" =>
       IF cgType \in GeometryTypes
         THEN err = "none" /\ cgClass = GeometryInstance(cgType)
         ELSE err = failure /\ cgClass = "none"
  /\ lastOp = "createMaterial" =>
       IF cgType \in MaterialTypes
         THEN err = "none" /\ cgClass = MaterialInstance(cgType)
         ELSE err = failure /\ cgClass = "none"

C22_NegativeSegmentsRejected ==
  (/\ lastOp = "createGeometry"
   /\ cgType \in GeometryTypes
   /\ SegmentsDefault(cgType) # <<>>
   /\ cgConfig.segments # <<>>
   /\ cgConfig.segments[1] < 0)
    => (err # "none" /\ cgClass = "none")

\* ------------------------------------------------------------------- C23
\* what the contract requires of one axis: the supplied value when the
\* transform, the group and the axis are all supplied, the default otherwise
AxisRequired(transform, group, axis, default) ==
  IF transform = <<>> THEN default
  ELSE IF transform[1][group] = <<>> THEN default
  ELSE IF transform[1][group][1][axis] = <<>> THEN default
  ELSE transform[1][group][1][axis][1]

\* C23: for every transform given to createDrawable, each axis that is not
\* supplied ends at its default (0 for position and rotation, 1 for scale)
\* and each supplied axis ends at the supplied value; a missing transform
\* yields the identity transform.
C23_TransformAxes ==
  lastOp = "createMesh.options" =>
    \A axis \in {"x", "y", "z"} :
      /\ cmMesh.position[axis] = AxisRequired(cmTransform, "position", axis, 0)
      /\ cmMesh.rotation[axis] = AxisRequired(cmTransform, "rotation", axis, 0)
      /\ cmMesh.scale[axis] = AxisRequired(cmTransform, "scale", axis, 1)

\* C23 witness: a mesh made with a scale whose x is supplied as 0 and whose
\* y is omitted, and with no rotation group
C23_Witness ==
  /\ lastOp = "createMesh.options"
  /\ cmTransform # <<>>
  /\ cmTransform[1].rotation = <<>>
  /\ cmTransform[1].scale # <<>>
  /\ cmTransform[1].scale[1].x = <<0>>
  /\ cmTransform[1].scale[1].y = <<>>

\* ------------------------------------------------------------------- C24
\* C24: createDrawable is pure with respect to caller-visible state: the
\* descriptor passed in, its userData included, is never modified, neither
\* by the call itself nor through the Drawable it returns.
C24_DescriptorUnmodified == cmUserData = cmGiven


\* ------------------------------------------------------------------- C25
\* C25: after dispose() no 'resize' listener of the disposed manager is
\* still registered on window.
C25_DisposeRemovesResizeListener == disposed => resizeListeners = 0

\* ------------------------------------------------------------------- C26
\* C26: on the manager build() returns every setting given through the
\* with* methods is in effect.
C26_BuildAppliesSettings ==
  sbManager # <<>> =>
    /\ sbManager[1].background = sbGiven[1].backgroundColor
    /\ sbManager[1].cameraPosition = sbGiven[1].cameraPosition
    /\ sbManager[1].shadowMap = sbGiven[1].enableShadows
    /\ sbManager[1].interaction = sbGiven[1].enableInteraction
    /\ sbManager[1].performanceCallback =
         sbGiven[1].enablePerformanceMonitoring

\* ------------------------------------------------------------------- C27
\* C27: after any sequence of start() and stop() calls on an initialized
\* manager at most one frame callback is pending, and after a stop() none is.
C27_AtMostOneFramePending ==
  initializeCalls >= 1 =>
    /\ Cardinality(pending) <= 1
    /\ lastOp = "stop" => pending = {}

\* ------------------------------------------------------------------- C28
\* C28: the selected object is either null or one of the meshes in the
\* managed objects list.
C28_SelectedIsManaged ==
  selectedObject = Null \/ selectedObject \in Elements(objects)

\* ------------------------------------------------------------------- C29
\* the eventHandlers keys the listeners of setupInteraction() look up:
\* 'click' reads onClick, 'mousemove' reads onMouseMove
WiredKeys == {"onClick", "onMouseMove"}

\* the entry initialize() leaves in its log when it stores a handler
SetEventHandlerHook ==
  [onClick |-> "setEventHandler:onClick",
   onHover |-> "setEventHandler:onHover",
   onMouseMove |-> "setEventHandler:onMouseMove"]

\* the keys initialize() stored a handler under
StoredKeys ==
  {key \in DOMAIN SetEventHandlerHook :
     Count(initLog, SetEventHandlerHook[key]) > 0}

\* C29: every handler initialize() registers through setEventHandler is
\* stored under a key that a pointer event wired by setupInteraction reads.
C29_RegisteredHandlersReachable ==
  clickListeners > 0 => StoredKeys \subseteq WiredKeys

\* ------------------------------------------------------------------- C30
\* the frames executed during the second that ends now
FramesInLastSecond ==
  Cardinality({i \in DOMAIN frameTimes : now - frameTimes[i] <= StatsPeriod})

\* C30: the fps value handed to the performance callback is the number of
\* frames executed during one second, also when the loop was stopped and is
\* started again: the frame of that start() reports the frames of the
\* second that ends with it.
C30_FpsIsFramesPerSecond ==
  [][(stopped /\ lastOp' = "start" /\ CallbackRuns)
       => reportedFps' = FramesInLastSecond']_vars

====
